---- MODULE Spec2Model ----
(***************************************************************************)
(* Model of the AI-user generator of KieshStockExchange:                   *)
(*   src/Tools/Person.py          the Person class and its sampling helpers *)
(*   src/Tools/GenerateAIUsers.py generate_aiuser_excel, the batch driver   *)
(*                                                                         *)
(* Floats are fixed-point integers in thousandths (ONE stands for 1.0).    *)
(* Every random draw is one of three levels of its range: 0 the low end,   *)
(* 1 the middle, 2 the high end.  The random source of one Person is a     *)
(* base level plus at most `budget` draws that deviate from it.            *)
(***************************************************************************)
EXTENDS Integers, Sequences, FiniteSets, TLC

\* ------------------------------------------------------------------ bounds
MaxPeople  == 2      \* largest num_people passed to generate_aiuser_excel
MaxBatches == 2      \* calls of generate_aiuser_excel in one process

\* ----------------------------------------------------------- fixed point
ONE == 1000          \* the float 1.0

Min(a, b) == IF a < b THEN a ELSE b
Max(a, b) == IF a > b THEN a ELSE b

\* ------------------------------------------------------------ the catalog
ShippedTickers ==
  << "MSFT", "NVDA", "AAPL", "AMZN", "GOOG", "META", "AVGO", "TSLA", "TSM",
     "WMT", "LLY", "V", "ORCL", "NFLX", "MA", "BAC", "ASML", "KO", "BABA",
     "MCD", "AMD" >>

\* reference prices in cents, in the order of ShippedTickers
ShippedPrices ==
  << 51371, 17350, 21388, 23144, 19408, 71268, 29018, 31606, 24560, 9747,
     81269, 35704, 24512, 118049, 56822, 4845, 71125, 6917, 12003, 29847,
     16647 >>

\* a catalog smaller than the position bands: three instruments priced
\* 100, 200 and 50
SmallTickers == << "AAA", "BBB", "CCC" >>
SmallPrices  == << 10000, 20000, 5000 >>

Catalogs == { ShippedTickers, SmallTickers }

VARIABLES
  TICKERS,      \* module list TICKERS of Person.py
  budget,       \* the draws of one Person that may leave its base level
  idx,          \* Person.idx
  usernames,    \* Person.usernames
  rng,          \* the state of the module `random`
  pc,           \* position of the program
  batches,      \* calls of generate_aiuser_excel made so far
  num_people,   \* argument of the running call
  done,         \* iterations of the generation loop completed
  p,            \* the Person under construction (self)
  cleaned,      \* local `cleaned` of generate_username
  sheets,       \* the three worksheets of the running call
  file,         \* the workbook on disk
  mock          \* the scripts of `fake` and `random` when they are mocked

vars == << TICKERS, budget, idx, usernames, rng, pc, batches, num_people,
           done, p, cleaned, sheets, file, mock >>

IndexOf(seq, x) == CHOOSE i \in 1..Len(seq) : seq[i] = x
Range(seq)      == { seq[i] : i \in 1..Len(seq) }

\* PRICES = dict(zip(TICKERS, [...])), in cents
PRICES(t) ==
  IF t \in Range(ShippedTickers)
  THEN ShippedPrices[IndexOf(ShippedTickers, t)]
  ELSE SmallPrices[IndexOf(SmallTickers, t)]

\* STOCKIDS = dict(zip(TICKERS, range(1, len(TICKERS)+1)))
STOCKIDS(t) == IndexOf(TICKERS, t)

\* ------------------------------------------------------ the random source
Levels == {0, 1, 2}

\* the draws of one stage: each site of the stage takes the base level,
\* except the sites of dev, which take the level dev gives them
Deviations(sites, base, left) ==
  UNION { [D -> Levels \ {base}] :
          D \in { D \in SUBSET sites : Cardinality(D) <= left } }

Lvl(dev, site) == IF site \in DOMAIN dev THEN dev[site] ELSE rng.base

Spend(dev) == [rng EXCEPT !.left = @ - Cardinality(DOMAIN dev)]

\* between two Persons no draw of the stream is fixed
NoDraws == [base |-> 0, left |-> 0]

\* random.random(): 0.0, 0.5, 0.999
random(lvl) == CASE lvl = 0 -> 0 [] lvl = 1 -> 500 [] OTHER -> 999

\* random.uniform(a, b) and random.randint(a, b)
uniform(a, b, lvl) ==
  CASE lvl = 0 -> a [] lvl = 1 -> (a + b) \div 2 [] OTHER -> b

randint(a, b, lvl) ==
  CASE lvl = 0 -> a [] lvl = 1 -> (a + b) \div 2 [] OTHER -> b

\* random.choice(seq)
choice(seq, lvl) == seq[randint(1, Len(seq), lvl)]

Reverse(seq) == [i \in 1..Len(seq) |-> seq[Len(seq) + 1 - i]]

\* random.sample(population, k), k <= len(population): a list of k distinct
\* elements in some order: the first k in order, the middle k backwards,
\* or the last k in order
sample(population, k, lvl) ==
  LET n   == Len(population)
      off == (n - k) \div 2
  IN  CASE lvl = 0 -> SubSeq(population, 1, k)
        [] lvl = 1 -> Reverse(SubSeq(population, off + 1, off + k))
        [] OTHER   -> SubSeq(population, n - k + 1, n)

\* u ** skew for the three values of u; skew in tenths
Pow(u, skew) ==
  CASE u = 0   -> 0
    [] u = 500 -> (CASE skew = 13 -> 406 [] skew = 7 -> 615
                     [] skew = 15 -> 353 [] OTHER -> 707)
    [] OTHER   -> (CASE skew = 13 -> 998 [] skew = 7 -> 999
                     [] skew = 15 -> 998 [] OTHER -> 999)

\* 50 ** u in thousandths
Pow50(u) == CASE u = 0 -> 1000 [] u = 500 -> 7071 [] OTHER -> 49804

\* ---------------------------------------------------------------- helpers
\* a variant of clamp01 without the upper bound
clampLow(x) == IF x < 0 THEN 0 ELSE x

clamp01(x) == IF x < 0 THEN 0 ELSE IF x > ONE THEN ONE ELSE x

skewed01(skew, lvl) == Pow(random(lvl), skew)

jitter(x, rel, lvl) == (x * (ONE + uniform(-rel, rel, lvl))) \div ONE

\* int(min_base * (max_factor ** u)), max_factor = 50.0
sample_log_balance(min_base, lvl) == (min_base * Pow50(random(lvl))) \div ONE

\* ------------------------------------------------------------------ faker
\* characters: ASCII letters and digits, two separators and one letter
\* outside ASCII ("eacute")
AsciiAlnum == { "a", "b", "c", "e", "i", "l", "n", "o", "r", "w", "x", "9" }
isalnum(ch) == ch \notin { ".", "_" }

\* fake.user_name()
FakeUserNames ==
  { << "a", "n", "n", ".", "x" >>,
    << "a", "l", "i", "c", "e", ".", "w" >>,
    << "a", "l", "i", "c", "e", "_", "w" >>,
    << "b", "o", "b", "_", "l", "e", "e" >>,
    << "r", "e", "n", "eacute", "e", ".", "x" >>,
    << "c", "a", "r", "o", "l", "_", "b", "r", "o", "w", "n", ".",
       "r", "o", "b", "i", "n", "9", "a", "b", "c", "e", "x" >> }

FakeNames      == { "Alice Wong" }
FakeDomains    == { "gmail.com" }
FakeBirthdates == { "1990-01-01" }

\* USERNAME_RE = ^[a-zA-Z0-9]{5,20}$
USERNAME_RE(s) ==
  /\ Len(s) >= 5
  /\ Len(s) <= 20
  /\ \A i \in 1..Len(s) : s[i] \in AsciiAlnum

\* ----------------------------------------------------------------- sheets
\* `fake` and `random` as shipped: any value at every call
NoMock == [user_names |-> << >>, levels |-> << >>, pos |-> 0]

\* scripted fake.user_name() values, returned in order and then again from
\* the first one
UserNameScripts ==
  { << << "a", "l", "i", "c", "e", ".", "w" >>,
       << "b", "o", "b", "_", "l", "e", "e" >> >>,
    << << "a", "n", "n", ".", "x" >>,
       << "b", "o", "b", "_", "l", "e", "e" >>,
       << "a", "l", "i", "c", "e", "_", "w" >>,
       << "c", "a", "r", "o", "l", "_", "b", "r", "o", "w", "n", ".",
          "r", "o", "b", "i", "n", "9", "a", "b", "c", "e", "x" >> >>,
    << << "a", "l", "i", "c", "e", ".", "w" >>,
       << "a", "l", "i", "c", "e", "_", "w" >> >> }

\* scripted levels of the random stream, one per Person of a call
LevelScripts == { << 0, 2 >>, << 1, 1 >>, << 2, 0 >> }

Mocks ==
  { [user_names |-> u, levels |-> l, pos |-> 1] :
      u \in UserNameScripts, l \in LevelScripts }

NoPerson    == << >>
EmptySheets == [Identity |-> << >>, Holding |-> << >>, Profile |-> << >>]
NoFile      == "none"

\* ------------------------------------------------------------------- Init
InitWith(tickers, deviating, mocked) ==
  /\ TICKERS    = tickers
  /\ mock       = mocked
  /\ budget     = deviating
  /\ idx        = 1
  /\ usernames  = {}
  /\ rng        = NoDraws
  /\ pc         = "idle"
  /\ batches    = 0
  /\ num_people = 0
  /\ done       = 0
  /\ p          = NoPerson
  /\ cleaned    = << >>
  /\ sheets     = EmptySheets
  /\ file       = NoFile

\* one draw of a Person may leave the base level of its stream
Init == InitWith(ShippedTickers, 1, NoMock)

InitCatalog == \E c \in Catalogs : InitWith(c, 1, NoMock)

\* two draws of a Person may leave the base level of its stream
InitDeep == InitWith(ShippedTickers, 2, NoMock)

\* `fake` and `random` are mocked: every call of generate_aiuser_excel is
\* fed the same script from its start, and no draw leaves the scripted level
InitMocked == \E m \in Mocks : InitWith(ShippedTickers, 0, m)

\* ------------------------------------------------- generate_aiuser_excel
\* lines 20-38: load the workbook, reset the three sheets, reset Person.idx
Start ==
  /\ pc = "idle"
  /\ batches < MaxBatches
  /\ \E n \in (-1)..MaxPeople : num_people' = n
  /\ batches' = batches + 1
  /\ sheets'  = EmptySheets
  /\ idx'     = 1
  /\ done'    = 0
  /\ pc'      = "loop"
  /\ mock'    = [mock EXCEPT !.pos = Min(1, Len(mock.user_names))]
  /\ UNCHANGED << TICKERS, budget, usernames, rng, p, cleaned, file >>

\* the level of the stream of the next Person: any, or the scripted one
SeedDraws ==
  IF Len(mock.levels) = 0
  THEN Levels
  ELSE { mock.levels[(done % Len(mock.levels)) + 1] }

\* line 42 and Person.__init__ line 78: the next Person draws its seed
PersonNew ==
  /\ pc = "loop"
  /\ done < num_people
  /\ \E base \in SeedDraws :
       /\ rng' = [base |-> base, left |-> budget]
       /\ p'   = [seed |-> randint(1000000, 10000000, base)]
  /\ pc' = "Identity"
  /\ UNCHANGED << TICKERS, budget, mock, idx, usernames, batches, num_people, done,
                  cleaned, sheets, file >>

\* Person.Identity lines 86-88, up to the call of generate_username
Identity ==
  /\ pc = "Identity"
  /\ \E name \in FakeNames :
       p' = p @@ [user_id |-> idx, full_name |-> name]
  /\ idx' = idx + 1
  /\ pc'  = "generate_username"
  /\ UNCHANGED << TICKERS, budget, mock, usernames, rng, batches, num_people, done,
                  cleaned, sheets, file >>

\* the value of the next fake.user_name(): any, or the scripted one
UserNameDraws ==
  IF Len(mock.user_names) = 0
  THEN FakeUserNames
  ELSE { mock.user_names[mock.pos] }

\* a variant of the test of line 41 that forgets the issued usernames
AcceptsAnyFormatted(name) == USERNAME_RE(name)

\* the test of line 41
Accepts(name) == USERNAME_RE(name) /\ name \notin usernames

\* one iteration of the loop of generate_username; when it returns,
\* Identity finishes with lines 89-91
generate_username ==
  /\ pc = "generate_username"
  /\ \E raw \in UserNameDraws, domain \in FakeDomains, born \in FakeBirthdates :
       LET c == SelectSeq(raw, isalnum)
           t == SubSeq(c, 1, Min(Len(c), 20))
       IN  IF Len(c) < 5
           THEN /\ cleaned' = c
                /\ UNCHANGED << usernames, p, pc >>
           ELSE IF Accepts(t)
           THEN /\ usernames' = usernames \cup {t}
                /\ p' = p @@ [username  |-> t,
                              email     |-> << t, "@", domain >>,
                              birthdate |-> born]
                /\ cleaned' = << >>
                /\ pc' = "TradeProperties"
           ELSE /\ cleaned' = t
                /\ UNCHANGED << usernames, p, pc >>
  /\ mock' = IF Len(mock.user_names) = 0
             THEN mock
             ELSE [mock EXCEPT !.pos = (mock.pos % Len(mock.user_names)) + 1]
  /\ UNCHANGED << TICKERS, budget, idx, rng, batches, num_people, done, sheets, file >>

\* ------------------------------------------------------ the five stages
\* a variant of line 105 that rounds to the nearest second
IntervalSecondsRounded(j) == (Max(ONE, j) + ONE \div 2) \div ONE

\* line 105: int(max(1, j)), the jittered interval j cut to whole seconds
IntervalSeconds(j) == Max(ONE, j) \div ONE

\* Person.TradeProperties, lines 93-112
TradePropertiesOf(q, dev) ==
  LET base_agg        == skewed01(13, Lvl(dev, "agg_u"))
      aggressive      == clamp01(jitter(base_agg, 100, Lvl(dev, "agg_j")))
      base_online     == 200 + (800 * skewed01(7, Lvl(dev, "online_u"))) \div ONE
      base_interval   == 20 * ONE - (12 * aggressive * aggressive) \div ONE
      base_trade_prob == 100 + (500 * aggressive * aggressive) \div (ONE * ONE)
  IN  q @@ [aggressive       |-> aggressive,
            online_prob      |-> clamp01(jitter(base_online, 100, Lvl(dev, "online_j"))),
            interval_seconds |-> IntervalSeconds(jitter(base_interval, 150,
                                                        Lvl(dev, "interval_j"))),
            trade_prob       |-> clamp01(jitter(base_trade_prob, 150, Lvl(dev, "trade_j"))),
            strategy         |-> choice(<< 1, 2, 3, 4 >>, Lvl(dev, "strategy"))]

TradePropertiesSites ==
  { "agg_u", "agg_j", "online_u", "online_j", "interval_j", "trade_j",
    "strategy" }

TradeProperties ==
  /\ pc = "TradeProperties"
  /\ \E dev \in Deviations(TradePropertiesSites, rng.base, rng.left) :
       /\ p'   = TradePropertiesOf(p, dev)
       /\ rng' = Spend(dev)
  /\ pc' = "Portfolio"
  /\ UNCHANGED << TICKERS, budget, mock, idx, usernames, batches, num_people, done,
                  cleaned, sheets, file >>

\* lines 124-132: the band of min_stocks and max_stocks
StockBand(aggressive) ==
  IF aggressive < 300 THEN [lo |-> << 1, 4 >>, hi |-> << 6, 12 >>]
  ELSE IF aggressive < 600 THEN [lo |-> << 3, 5 >>, hi |-> << 8, 15 >>]
  ELSE [lo |-> << 5, 8 >>, hi |-> << 12, 20 >>]

\* a variant of sorted that keeps the order of its argument
Unsorted(seq) == seq

\* sorted(seq) of a list of distinct integers
sorted(seq) == SortSeq(seq, LAMBDA a, b : a < b)

\* str(n) of a non-negative integer: its decimal digits
Digits == << "0", "1", "2", "3", "4", "5", "6", "7", "8", "9" >>

RECURSIVE str(_)
str(n) ==
  IF n < 10 THEN << Digits[n + 1] >>
  ELSE str(n \div 10) \o << Digits[(n % 10) + 1] >>

\* ",".join(str(id) for id in ids): a string, as the list of its characters
RECURSIVE JoinCsv(_)
JoinCsv(ids) ==
  IF Len(ids) = 0 THEN << >>
  ELSE IF Len(ids) = 1 THEN str(ids[1])
  ELSE str(ids[1]) \o << "," >> \o JoinCsv(Tail(ids))

\* a variant of line 146 that allocates the whole balance
AmountPerStockNoReserve(balance, min_cash, max_cash, n_stocks) ==
  balance \div n_stocks

\* line 146: balance * (1 - (min_cash*2 + max_cash)/3) // n_stocks
AmountPerStock(balance, min_cash, max_cash, n_stocks) ==
  (balance * (3 * ONE - (min_cash * 2 + max_cash))) \div (3 * ONE * n_stocks)

\* a variant of line 147 that rounds the share count up
SharesCeil(amount_per_stock, s) ==
  (amount_per_stock * 100 + PRICES(s) - 1) \div PRICES(s)

\* line 147: int(amount_per_stock // PRICES[s]), PRICES in cents
Shares(amount_per_stock, s) == (amount_per_stock * 100) \div PRICES(s)

\* a variant of lines 116-121 that divides by the factor of line 121
CashOfDivided(q, dev) ==
  LET base_max_cash == 500 - (300 * q.aggressive) \div ONE
      max_cash      == clamp01(jitter(base_max_cash, 150, Lvl(dev, "max_cash_j")))
  IN  [balance  |-> sample_log_balance(10000, Lvl(dev, "balance_u")),
       max_cash |-> max_cash,
       min_cash |-> (max_cash * ONE) \div uniform(300, 600, Lvl(dev, "min_cash_f"))]

\* lines 116-121: balance and cash reserves
CashOf(q, dev) ==
  LET base_max_cash == 500 - (300 * q.aggressive) \div ONE
      max_cash      == clamp01(jitter(base_max_cash, 150, Lvl(dev, "max_cash_j")))
  IN  [balance  |-> sample_log_balance(10000, Lvl(dev, "balance_u")),
       max_cash |-> max_cash,
       min_cash |-> (max_cash * uniform(300, 600, Lvl(dev, "min_cash_f"))) \div ONE]

\* lines 124-132: min_stocks and max_stocks
StocksOf(q, dev) ==
  LET band == StockBand(q.aggressive)
  IN  [min_stocks |-> randint(band.lo[1], band.lo[2], Lvl(dev, "min_stocks")),
       max_stocks |-> randint(band.hi[1], band.hi[2], Lvl(dev, "max_stocks"))]

\* lines 135-139: the watchlist, a list of tickers
WatchlistOf(max_stocks, dev) ==
  LET watchlist_extra == randint(3, 8, Lvl(dev, "watchlist_extra"))
      watchlist_size  == Min(Len(TICKERS), max_stocks + watchlist_extra)
  IN  sample(TICKERS, watchlist_size, Lvl(dev, "watchlist"))

\* lines 140-141
WatchListCsv(watchlist) ==
  JoinCsv(sorted([i \in 1..Len(watchlist) |-> STOCKIDS(watchlist[i])]))

\* a variant of lines 144-147 that draws the holdings from the catalog
HoldingsOfCatalog(cash, watchlist, n_stocks, dev) ==
  LET portfolio        == Range(sample(TICKERS, n_stocks, Lvl(dev, "portfolio")))
      amount_per_stock == AmountPerStock(cash.balance, cash.min_cash,
                                         cash.max_cash, n_stocks)
  IN  [s \in portfolio |-> Shares(amount_per_stock, s)]

\* lines 144-147: the holdings drawn from the watchlist
HoldingsOf(cash, watchlist, n_stocks, dev) ==
  LET portfolio        == Range(sample(watchlist, n_stocks, Lvl(dev, "portfolio")))
      amount_per_stock == AmountPerStock(cash.balance, cash.min_cash,
                                         cash.max_cash, n_stocks)
  IN  [s \in portfolio |-> Shares(amount_per_stock, s)]

PortfolioSites ==
  { "balance_u", "max_cash_j", "min_cash_f", "min_stocks", "max_stocks",
    "watchlist_extra", "watchlist", "n_stocks", "portfolio" }

\* Person.Portfolio, lines 114-147; random.sample raises ValueError when
\* n_stocks exceeds the length of the watchlist
Portfolio ==
  /\ pc = "Portfolio"
  /\ \E dev \in Deviations(PortfolioSites, rng.base, rng.left) :
       LET cash      == CashOf(p, dev)
           stocks    == StocksOf(p, dev)
           watchlist == WatchlistOf(stocks.max_stocks, dev)
           n_stocks  == randint(stocks.min_stocks, stocks.max_stocks,
                                Lvl(dev, "n_stocks"))
       IN  /\ rng' = Spend(dev)
           /\ IF n_stocks > Len(watchlist)
              THEN /\ p'  = p @@ cash @@ stocks
                            @@ [watchList_csv |-> WatchListCsv(watchlist)]
                   /\ pc' = "error"
              ELSE /\ p'  = p @@ cash @@ stocks
                            @@ [watchList_csv |-> WatchListCsv(watchlist),
                                holdings |-> HoldingsOf(cash, watchlist,
                                                        n_stocks, dev)]
                   /\ pc' = "OrderTypes"
  /\ UNCHANGED << TICKERS, budget, mock, idx, usernames, batches, num_people, done,
                  cleaned, sheets, file >>

\* Person.OrderTypes, lines 149-157
OrderTypesOf(q, dev) ==
  LET base_buy_bias == 500 + (100 * (q.aggressive - 500)) \div ONE
      buy_bias      == clamp01(jitter(base_buy_bias, 100, Lvl(dev, "buy_bias_j")))
  IN  q @@ [use_market |-> 50 + (200 * skewed01(15, Lvl(dev, "market_u"))) \div ONE,
            use_slip   |-> 500 + (400 * skewed01(5, Lvl(dev, "slip_u"))) \div ONE,
            buy_bias   |-> Max(400, Min(600, buy_bias))]

OrderTypesSites == { "market_u", "slip_u", "buy_bias_j" }

OrderTypes ==
  /\ pc = "OrderTypes"
  /\ \E dev \in Deviations(OrderTypesSites, rng.base, rng.left) :
       /\ p'   = OrderTypesOf(p, dev)
       /\ rng' = Spend(dev)
  /\ pc' = "TradeLimits"
  /\ UNCHANGED << TICKERS, budget, mock, idx, usernames, batches, num_people, done,
                  cleaned, sheets, file >>

\* a variant of lines 172-175 without the cap of line 175
PerPosMaxUncapped(aggressive, max_stocks, lvl) ==
  LET base_per_pos == 80 + (220 * aggressive) \div ONE
  IN  clamp01(jitter(base_per_pos, 150, lvl))

\* lines 172-175: the cap of one position
PerPosMax(aggressive, max_stocks, lvl) ==
  LET base_per_pos  == 80 + (220 * aggressive) \div ONE
      portfolio_max == ONE \div max_stocks
      per_pos_max   == clamp01(jitter(base_per_pos, 150, lvl))
  IN  Min(per_pos_max, portfolio_max)

\* Person.TradeLimits, lines 159-185
TradeLimitsOf(q, dev) ==
  LET base_slip_tol    == 5 + (25 * q.aggressive) \div ONE
      base_max_limit   == 20 + (30 * q.aggressive) \div ONE
      max_limit        == clamp01(jitter(base_max_limit, 200, Lvl(dev, "max_limit_j")))
      min_limit        == (max_limit * uniform(20, 300, Lvl(dev, "min_limit_f"))) \div ONE
      per_pos_max      == PerPosMax(q.aggressive, q.max_stocks, Lvl(dev, "per_pos_j"))
      base_trade       == 100 + (300 * q.aggressive) \div ONE
      base_open_orders == 10 + (40 * q.aggressive) \div ONE
  IN  q @@ [slippage_tolerance |-> clamp01(jitter(base_slip_tol, 200,
                                                  Lvl(dev, "slip_tol_j"))),
            min_limit_offset   |-> clamp01(min_limit),
            max_limit_offset   |-> clamp01(max_limit),
            per_pos_max        |-> per_pos_max,
            min_trade_amount   |-> (per_pos_max
                                    * uniform(100, 300, Lvl(dev, "min_trade_f"))) \div ONE,
            max_trade_amount   |-> (per_pos_max
                                    * uniform(400, 800, Lvl(dev, "max_trade_f"))) \div ONE,
            max_daily_trades   |-> Max(100, jitter(base_trade, 200, Lvl(dev, "daily_j"))),
            max_orders         |-> Max(10, jitter(base_open_orders, 200,
                                                  Lvl(dev, "orders_j")))]

TradeLimitsSites ==
  { "slip_tol_j", "max_limit_j", "min_limit_f", "per_pos_j", "min_trade_f",
    "max_trade_f", "daily_j", "orders_j" }

TradeLimits ==
  /\ pc = "TradeLimits"
  /\ \E dev \in Deviations(TradeLimitsSites, rng.base, rng.left) :
       /\ p'   = TradeLimitsOf(p, dev)
       /\ rng' = Spend(dev)
  /\ pc' = "append"
  /\ UNCHANGED << TICKERS, budget, mock, idx, usernames, batches, num_people, done,
                  cleaned, sheets, file >>

\* ------------------------------------------------------------ serializers
ToIdentityList(q) ==
  << q.user_id, q.username, q.full_name, q.email, q.birthdate >>

\* a variant of ToHoldingList that lists the held tickers only
ToHoldingListHeldOnly(q) ==
  << q.user_id, q.balance >> \o
  SelectSeq([k \in 1..Len(TICKERS) |->
               IF TICKERS[k] \in DOMAIN q.holdings
               THEN q.holdings[TICKERS[k]] ELSE 0],
            LAMBDA c : c # 0)

\* round(self.balance, 2) of the int balance is the balance
ToHoldingList(q) ==
  << q.user_id, q.balance >> \o
  [k \in 1..Len(TICKERS) |->
     IF TICKERS[k] \in DOMAIN q.holdings THEN q.holdings[TICKERS[k]] ELSE 0]

\* lines 43-45: the three rows of the Person; of a Holding and a Profile
\* row the sheet keeps the UserId column, of an Identity row UserId and
\* Username
AppendRows ==
  /\ pc = "append"
  /\ sheets' = [Identity |-> Append(sheets.Identity,
                                    SubSeq(ToIdentityList(p), 1, 2)),
                Holding  |-> Append(sheets.Holding, ToHoldingList(p)[1]),
                Profile  |-> Append(sheets.Profile, p.user_id)]
  /\ done' = done + 1
  /\ p'    = NoPerson
  /\ rng'  = NoDraws
  /\ pc'   = "loop"
  /\ UNCHANGED << TICKERS, budget, mock, idx, usernames, batches, num_people, cleaned,
                  file >>

\* lines 47-57: the loop is over; theme, autofit and wb.save
Finish ==
  /\ pc = "loop"
  /\ done >= num_people
  /\ file' = sheets
  /\ pc'   = "idle"
  /\ UNCHANGED << TICKERS, budget, mock, idx, usernames, rng, batches, num_people, done,
                  p, cleaned, sheets >>

\* ---------------------------------------------------------- specification
Next ==
  \/ Start
  \/ PersonNew
  \/ Identity
  \/ generate_username
  \/ TradeProperties
  \/ Portfolio
  \/ OrderTypes
  \/ TradeLimits
  \/ AppendRows
  \/ Finish

Spec == Init /\ [][Next]_vars

\* the catalog as an input: the shipped one or the small one
SpecCatalog == InitCatalog /\ [][Next]_vars

\* the shipped catalog with two deviating draws per Person
SpecDeep == InitDeep /\ [][Next]_vars

\* both collaborators mocked
SpecMocked == InitMocked /\ [][Next]_vars

\* a single thread that runs whenever it can take a step
FairSpec == Spec /\ WF_vars(Next)

\* ------------------------------------------------------------- properties
\* the Person of this state has run all five stages
Completed == pc = "append"

\* int(text) of a string of decimal digits
RECURSIVE ParseInt(_)
ParseInt(text) ==
  IF Len(text) = 0 THEN 0
  ELSE 10 * ParseInt(SubSeq(text, 1, Len(text) - 1))
       + (IndexOf(Digits, text[Len(text)]) - 1)

\* [int(t) for t in csv.split(",")] of a non-empty string
RECURSIVE SplitCsv(_)
SplitCsv(csv) ==
  LET commas == { i \in 1..Len(csv) : csv[i] = "," }
  IN  IF commas = {} THEN << ParseInt(csv) >>
      ELSE LET k == CHOOSE i \in commas : \A j \in commas : i <= j
           IN  << ParseInt(SubSeq(csv, 1, k - 1)) >>
               \o SplitCsv(SubSeq(csv, k + 1, Len(csv)))

\* the instrument ids of the watchlist of q
WatchIds(q) == IF Len(q.watchList_csv) = 0 THEN << >>
               ELSE SplitCsv(q.watchList_csv)

IdentityIds   == { sheets.Identity[i][1] : i \in 1..Len(sheets.Identity) }
IdentityNames == { sheets.Identity[i][2] : i \in 1..Len(sheets.Identity) }

\* C1: the Identity rows of a batch carry the user ids 1..N, N the number of
\* Persons generated so far in the batch, and N pairwise distinct usernames;
\* when the loop is over N is num_people
C1_UniqueIdsAndUsernames ==
  /\ Len(sheets.Identity) = done
  /\ IdentityIds = 1..done
  /\ Cardinality(IdentityNames) = done
  /\ (pc = "loop" /\ done >= num_people /\ num_people >= 0) => done = num_people

\* a batch of the largest size is complete
C1_Witness ==
  /\ pc = "loop"
  /\ num_people = MaxPeople
  /\ done = num_people
  /\ Cardinality(IdentityNames) = MaxPeople

\* C2: every call of generate_username returns or fails: the program does
\* not stay inside its loop forever
C2_UsernameTerminates ==
  (pc = "generate_username") ~> (pc # "generate_username")

\* C3: when a call of generate_aiuser_excel reaches its loop, the next id
\* is 1 and no username is recorded as issued
C3_FreshRegistryPerBatch ==
  (pc = "loop" /\ done = 0) => (idx = 1 /\ usernames = {})

\* C4: 1 <= min_stocks < max_stocks <= catalog size for every completed
\* Person, whatever the catalog
C4_StocksWithinCatalog ==
  Completed => /\ 1 <= p.min_stocks
               /\ p.min_stocks < p.max_stocks
               /\ p.max_stocks <= Len(TICKERS)

\* C5: the watchlist of a completed Person lists ids of the catalog in
\* strictly ascending order; its size is min(catalog size, max_stocks + e)
\* for an e in 3..8, exceeds max_stocks and is at most the catalog size
C5_Watchlist ==
  Completed =>
    LET w == WatchIds(p)
    IN  /\ \A i \in 1..Len(w) : w[i] \in 1..Len(TICKERS)
        /\ \A i \in 1..(Len(w) - 1) : w[i] < w[i + 1]
        /\ \E e \in 3..8 : Len(w) = Min(Len(TICKERS), p.max_stocks + e)
        /\ Len(w) > p.max_stocks
        /\ Len(w) <= Len(TICKERS)

\* a completed Person whose watchlist is smaller than the catalog and was
\* drawn out of catalog order
C5_Witness ==
  /\ Completed
  /\ Len(WatchIds(p)) < Len(TICKERS)
  /\ Len(WatchIds(p)) = p.max_stocks + 5
  /\ rng.base = 1

\* C6: every key of holdings is on the watchlist, and the number of keys
\* is between min_stocks and max_stocks
C6_HoldingsOnWatchlist ==
  Completed =>
    LET watched == Range(WatchIds(p))
    IN  /\ \A s \in DOMAIN p.holdings : STOCKIDS(s) \in watched
        /\ Cardinality(DOMAIN p.holdings) >= p.min_stocks
        /\ Cardinality(DOMAIN p.holdings) <= p.max_stocks

\* a completed Person that holds fewer instruments than it watches
C6_Witness ==
  /\ Completed
  /\ Cardinality(DOMAIN p.holdings) < Len(WatchIds(p))
  /\ Len(WatchIds(p)) < Len(TICKERS)

\* C7: min_trade_amount <= max_trade_amount <= per_pos_max <= 1/max_stocks
C7_TradeAmountOrder ==
  Completed =>
    /\ p.min_trade_amount <= p.max_trade_amount
    /\ p.max_trade_amount <= p.per_pos_max
    /\ p.per_pos_max * p.max_stocks <= ONE

\* a completed Person whose aggressiveness-derived cap lies above
\* 1/max_stocks: the most aggressive one
C7_Witness ==
  /\ Completed
  /\ p.aggressive = ONE
  /\ p.per_pos_max = ONE \div p.max_stocks

Unit(x) == 0 <= x /\ x <= ONE

\* C8: the probabilities and fractions of a completed Person lie in [0,1],
\* its buy bias in [0.40, 0.60]
C8_Ranges ==
  Completed =>
    /\ Unit(p.aggressive) /\ Unit(p.online_prob) /\ Unit(p.trade_prob)
    /\ Unit(p.use_market) /\ Unit(p.use_slip)
    /\ Unit(p.min_cash) /\ Unit(p.max_cash)
    /\ Unit(p.slippage_tolerance)
    /\ Unit(p.min_limit_offset) /\ Unit(p.max_limit_offset)
    /\ Unit(p.per_pos_max)
    /\ Unit(p.min_trade_amount) /\ Unit(p.max_trade_amount)
    /\ 400 <= p.buy_bias /\ p.buy_bias <= 600

\* a completed Person whose aggressiveness and online probability were
\* clamped to 1
C8_Witness ==
  /\ Completed
  /\ p.aggressive = ONE
  /\ p.online_prob = ONE

\* C9: min_cash <= max_cash and min_limit_offset <= max_limit_offset
C9_MinBelowMax ==
  Completed =>
    /\ p.min_cash <= p.max_cash
    /\ p.min_limit_offset <= p.max_limit_offset

\* a completed Person with positive reserves and offsets, its minima drawn
\* with the largest factors
C9_Witness ==
  /\ Completed
  /\ p.min_cash > 0
  /\ p.min_cash * 10 >= p.max_cash * 5
  /\ p.min_limit_offset > 0

\* the columns of the Holding record of q with a non-zero share count
HoldingSupport(q) ==
  LET row == ToHoldingList(q)
  IN  { k \in 3..Len(row) : row[k] # 0 }

\* C10: the number of non-zero share counts of the Holding record is
\* between min_stocks and max_stocks
C10_HoldingSupport ==
  Completed =>
    /\ Cardinality(HoldingSupport(p)) >= p.min_stocks
    /\ Cardinality(HoldingSupport(p)) <= p.max_stocks

\* C11: a call with num_people <= 0 fails: it never returns normally, and
\* so never reaches wb.save
C11_NonPositiveBatchFails ==
  (batches >= 1 /\ num_people <= 0) => pc # "idle"

\* C12: the Holding record of a completed Person has 2 + catalog size
\* entries: the id, the balance, then for the k-th ticker of the catalog
\* its share count when it is a key of holdings and 0 otherwise
C12_HoldingRecord ==
  Completed =>
    LET row == ToHoldingList(p)
    IN  /\ Len(row) = 2 + Len(TICKERS)
        /\ row[1] = p.user_id
        /\ row[2] = p.balance
        /\ \A s \in DOMAIN p.holdings : row[2 + STOCKIDS(s)] = p.holdings[s]
        /\ \A k \in 1..Len(TICKERS) :
             TICKERS[k] \notin DOMAIN p.holdings => row[2 + k] = 0

\* a completed Person that holds some tickers of the catalog, the last one
\* among them, and not the first one
C12_Witness ==
  /\ Completed
  /\ TICKERS[1] \notin DOMAIN p.holdings
  /\ TICKERS[Len(TICKERS)] \in DOMAIN p.holdings
  /\ p.holdings[TICKERS[Len(TICKERS)]] > 0

\* C13: with `fake` and `random` mocked to the same values, a call that
\* follows another call of the same size in the same process has produced
\* the same rows when its loop ends
C13_SameRowsOnRerun ==
  ( /\ batches >= 2
    /\ pc = "loop"
    /\ done >= num_people
    /\ Len(file.Identity) = Len(sheets.Identity) )
  => sheets = file

\* balance * (1 - (2*min_cash + max_cash)/3) in thousandths of a dollar ...
InvestedNumerator(q) == q.balance * (3 * ONE - (2 * q.min_cash + q.max_cash))
\* ... and what divides it into the amount of one instrument
InvestedDivisor(q) == 3 * ONE * Cardinality(DOMAIN q.holdings)

\* floor(x / price) for the unrounded x = InvestedNumerator / InvestedDivisor:
\* the whole cents of x decide
ExactQuotientShares(q, s) ==
  LET whole == InvestedNumerator(q) \div InvestedDivisor(q)
      rest  == InvestedNumerator(q) % InvestedDivisor(q)
  IN  (whole * 100 + (rest * 100) \div InvestedDivisor(q)) \div PRICES(s)

\* C14 as stated: every share count is the floor of the unrounded amount
\* per instrument over the reference price
C14_SharesOfExactAmount ==
  Completed =>
    \A s \in DOMAIN p.holdings : p.holdings[s] = ExactQuotientShares(p, s)

\* C14 amended: every share count is the floor of the amount per instrument
\* over the reference price, where the amount per instrument is itself the
\* floor (whole dollars) of balance * (1 - (2*min_cash + max_cash)/3) / n
C14_SharesOfFlooredAmount ==
  Completed =>
    \A s \in DOMAIN p.holdings :
      p.holdings[s] =
        ((InvestedNumerator(p) \div InvestedDivisor(p)) * 100) \div PRICES(s)

\* a completed Person for whom the dropped fraction of a dollar costs a share
C14_Witness ==
  /\ Completed
  /\ \E s \in DOMAIN p.holdings :
       /\ p.holdings[s] > 0
       /\ p.holdings[s] < ExactQuotientShares(p, s)

\* the integers nearest to j thousandths (two of them at a tie)
Nearest(j) == { k \in (j \div ONE)..(j \div ONE + 1) :
                  2 * (k * ONE - j) <= ONE /\ 2 * (j - k * ONE) <= ONE }

\* the jittered intervals of a Person with this aggressiveness
JitteredIntervals(q) ==
  { jitter(20 * ONE - (12 * q.aggressive * q.aggressive) \div ONE, 150, lvl) :
      lvl \in Levels }

\* C15 as stated: the decision interval is max(1, round(j)) for the
\* jittered interval j
C15_IntervalRounded ==
  Completed =>
    \E j \in JitteredIntervals(p) :
      \E k \in Nearest(j) : p.interval_seconds = Max(1, k)

\* C15 amended: the decision interval is max(1, j) cut to whole seconds
\* (truncated, not rounded), a positive integer
C15_IntervalTruncated ==
  Completed =>
    /\ p.interval_seconds >= 1
    /\ \E j \in JitteredIntervals(p) :
         /\ p.interval_seconds * ONE <= Max(ONE, j)
         /\ Max(ONE, j) < (p.interval_seconds + 1) * ONE

\* a completed Person whose interval is not the nearest second of any
\* jittered interval
C15_Witness ==
  /\ Completed
  /\ \A j \in JitteredIntervals(p) : p.interval_seconds \notin Nearest(j)

\* balance * (1 - (2*min_cash + max_cash)/3) in whole cents
Invested(q) == InvestedNumerator(q) \div ((3 * ONE) \div 100)

RECURSIVE ValueOf(_, _)
\* the reference-price value in cents of the holdings of the tickers in set
ValueOf(q, set) ==
  IF set = {}
  THEN 0
  ELSE LET s == CHOOSE t \in set : TRUE
       IN  q.holdings[s] * PRICES(s) + ValueOf(q, set \ {s})

\* C16: a completed Person holds at least one instrument, and the value of
\* its holdings at reference prices is at most
\* balance * (1 - (2*min_cash + max_cash)/3), which is at most the balance
C16_HoldingsWithinInvested ==
  Completed =>
    /\ Cardinality(DOMAIN p.holdings) >= 1
    /\ ValueOf(p, DOMAIN p.holdings) <= Invested(p)
    /\ Invested(p) <= p.balance * 100

\* a completed Person with several instruments, shares of each, and a value
\* above nine tenths of the invested amount
C16_Witness ==
  /\ Completed
  /\ Cardinality(DOMAIN p.holdings) >= 2
  /\ \A s \in DOMAIN p.holdings : p.holdings[s] > 0
  /\ 10 * ValueOf(p, DOMAIN p.holdings) > 9 * (Invested(p))

====
